---------------------------- MODULE Spec2Model ----------------------------
(***************************************************************************)
(* State-machine model of the EuRoC data pipeline of src/data/euroc_utils.py *)
(* (read, interpolate, pre-process, window, split, hand over to training)    *)
(* and of InertialDataset.interpolate_ground_truth of                        *)
(* src/data/inertial_ABCs.py.                                                *)
(*                                                                           *)
(* Conventions.  A numpy array is a TLA+ sequence; the element the code      *)
(* addresses with the 0-based index i is At(s, i) = s[i+1].  Real numbers    *)
(* are exact rationals <<n, d>> in lowest terms (d > 0) wherever the code    *)
(* divides; np.linalg.norm is represented by the squared norm, which         *)
(* identifies the same vectors.  Window rows and window/target entries carry *)
(* a history field (src, id) naming the series index they were copied from;  *)
(* it is written only where the code copies the data it tags.                *)
(***************************************************************************)
EXTENDS Integers, Sequences, FiniteSets, TLC

VARIABLES
    pc,                 \* position of the running load_euroc_dataset call
    processed_ds_available, \* argument of the running call
    imu_csv,            \* mav0/imu0/data.csv on disk (rows after the header)
    gt_csv,             \* mav0/state_groundtruth_estimate0/data.csv on disk
    raw_imu_data,       \* local: list of IMU objects
    ground_truth_data,  \* local: list of GT objects
    gt_v_interp,        \* local: interpolated ground-truth velocities
    processed_imu,      \* local: filt_imu_vec returned by pre_process_data
    imu_seq_len,        \* argument imu_seq_len / imu_len (window length L)
    imu_img_tensor,     \* local of generate_euroc_imu_dataset: windows
    gt_v_tensor,        \* local of generate_euroc_imu_dataset: targets
    test_indexes,       \* local: indices drawn for the test set
    scaler_save,        \* scaler_gyro.save / scaler_acc.save under euroc_dir
    train_mat,          \* the euroc_train .mat file under euroc_dir
    test_mat,           \* the euroc_test .mat file under euroc_dir
    scaler_dir_txt,     \* trained_model_dir/scaler_files_dir.txt
    error,              \* exception that left the running call, or "none"
    self_imu_data,      \* InertialDataset.imu_data
    self_gt_data,       \* InertialDataset.gt_data
    self_stage,         \* InertialDataset: "unset", "raw", "aligned", "raised",
                        \* "processed"
    self_scaler_save,   \* InertialDataset: the scaler files basic_preprocessing dumps
    cur_root,           \* argument euroc_dir of the latest call
    shelf,              \* the files under the dataset roots other than cur_root
    hist                \* history: what the calls so far read, drew and returned

vars == <<pc, processed_ds_available, imu_csv, gt_csv, raw_imu_data,
          ground_truth_data, gt_v_interp, processed_imu, imu_seq_len,
          imu_img_tensor, gt_v_tensor, test_indexes, scaler_save, train_mat,
          test_mat, scaler_dir_txt, error, self_imu_data, self_gt_data,
          self_stage, self_scaler_save, cur_root, shelf, hist>>

---------------------------------------------------------------------------
(* Bounds of the model *)

\* largest timestamp of the enumerated series
MaxT == 4
\* largest number of ground-truth samples of the enumerated series
MaxGt == 3
\* largest length of the aligned series handed to the window builder
MaxN == 5
\* largest window length handed to the window builder
MaxL == 5
\* number of load_euroc_dataset calls one behaviour makes
MaxRuns == 2
\* largest imu_seq_len a load_euroc_dataset call is given
MaxSeqLen == 1
\* largest number of windows handed to the split specification
MaxSplitN == 11

---------------------------------------------------------------------------
(* Arithmetic helpers *)

Abs(x) == IF x < 0 THEN -x ELSE x

RECURSIVE GCD(_, _)
GCD(a, b) == IF b = 0 THEN a ELSE GCD(b, a % b)

\* the rational n/d (d # 0) in lowest terms with a positive denominator
Frac(n, d) ==
    LET s == IF d < 0 THEN -1 ELSE 1
        g == GCD(Abs(n), Abs(d))
    IN  <<(s * n) \div g, (s * d) \div g>>

FracAdd(p, q) == Frac(p[1] * q[2] + q[1] * p[2], p[2] * q[2])
FracMul(p, q) == Frac(p[1] * q[1], p[2] * q[2])
FracOfInt(n) == <<n, 1>>

\* 0-based access to a numpy array
At(s, i) == s[i + 1]

\* the elements of a set of integers in ascending order
RECURSIVE SortedSeq(_)
SortedSeq(S) ==
    IF S = {} THEN <<>>
    ELSE LET m == CHOOSE x \in S : \A y \in S : x <= y
         IN  <<m>> \o SortedSeq(S \ {m})

Range(s) == {s[k] : k \in DOMAIN s}

NoneVal == "none"

\* a .mat file that does not exist; "empty" is the node os.mknod leaves,
\* "partial" a file savemat did not finish, "complete" a finished savemat
AbsentFile == [state |-> "absent", imu |-> <<>>, y |-> <<>>]
EmptyFile == [state |-> "empty", imu |-> <<>>, y |-> <<>>]
PartialFile == [state |-> "partial", imu |-> <<>>, y |-> <<>>]

\* the pair of scaler .save files before any joblib.dump
NoScaler == [state |-> "absent", g |-> <<0, 0>>, a |-> <<0, 0>>]

\* the scaler files of an InertialDataset before any joblib.dump
NoClassScaler == [state |-> "absent",
                  g |-> [data_min |-> <<>>, data_max |-> <<>>],
                  a |-> [data_min |-> <<>>, data_max |-> <<>>]]

\* the dataset roots a call can be given as euroc_dir
euroc_dir == "euroc_dir"
other_dir == "other_dir"
Roots == {euroc_dir, other_dir}

\* the files under a dataset root that holds no recording and that no call
\* has written to
EmptyRoot == [imu_csv |-> <<>>, gt_csv |-> <<>>, scaler_save |-> NoScaler,
              train_mat |-> AbsentFile, test_mat |-> AbsentFile]

---------------------------------------------------------------------------
(* Data model: IMU and GT objects (euroc_utils.py, classes IMU and GT) *)

\* IMU.read: one row of imu0/data.csv
IMU(t, g, a) == [timestamp |-> t, gyro |-> g, acc |-> a]

\* GT.read: one row of the ground-truth csv (only vel is used downstream)
GT(t, v) == [timestamp |-> t, vel |-> v]

Timestamps(series) == [k \in DOMAIN series |-> series[k].timestamp]

---------------------------------------------------------------------------
(* interpolate_ground_truth *)

\* a strictly-inside-the-span test that keeps both ends (what a non-strict
\* comparison would compute)
InSpanInclusive(t, first, last) == t >= first /\ t <= last

\* the boolean mask of line 127: (imu_timestamps > gt_timestamps[0]) *
\* (imu_timestamps < gt_timestamps[-1])
InSpan(t, first, last) == t > first /\ t < last

\* raw_imu_data[mask]: boolean-mask indexing keeps the selected elements in order
TrimToSpan(imu, gt_timestamps) ==
    LET first == At(gt_timestamps, 0)
        last  == At(gt_timestamps, Len(gt_timestamps) - 1)
        keep(m) == InSpan(m.timestamp, first, last)
    IN  SelectSeq(imu, keep)

\* np.searchsorted(x, v) (side left): the number of entries of x below v
searchsorted(x, v) == Cardinality({k \in DOMAIN x : x[k] < v})

\* a bracket taken one interval too far to the right
BracketShifted(x, x_new) ==
    LET raw == searchsorted(x, x_new) + 1
    IN  IF raw < 1 THEN 1 ELSE IF raw > Len(x) - 1 THEN Len(x) - 1 ELSE raw

\* interp1d (kind linear): index hi of the bracketing interval, 0-based,
\* clipped to 1 .. len(x)-1; lo is hi - 1
Bracket(x, x_new) ==
    LET raw == searchsorted(x, x_new)
    IN  IF raw < 1 THEN 1 ELSE IF raw > Len(x) - 1 THEN Len(x) - 1 ELSE raw

\* interp1d(x, y)(x_new): slope * (x_new - x_lo) + y_lo with
\* slope = (y_hi - y_lo) / (x_hi - x_lo)
interp1d(x, y, x_new) ==
    LET hi == Bracket(x, x_new)
        lo == hi - 1
        dx == At(x, hi) - At(x, lo)
    IN  Frac((At(y, hi) - At(y, lo)) * (x_new - At(x, lo)) + At(y, lo) * dx, dx)

Axis(vecs, c) == [k \in DOMAIN vecs |-> vecs[k][c]]

\* lines 132-141: one interp1d per axis, evaluated at every IMU timestamp
InterpVelocity(gt, imu_timestamps) ==
    LET gt_timestamps == Timestamps(gt)
        gt_velocity   == [k \in DOMAIN gt |-> gt[k].vel]
    IN  [i \in DOMAIN imu_timestamps |->
            <<interp1d(gt_timestamps, Axis(gt_velocity, 1), imu_timestamps[i]),
              interp1d(gt_timestamps, Axis(gt_velocity, 2), imu_timestamps[i]),
              interp1d(gt_timestamps, Axis(gt_velocity, 3), imu_timestamps[i])>>]

\* the exception interpolate_ground_truth raises on this ground truth, or
\* "none": gt_timestamps[0] of an empty array (line 127), interp1d of a
\* single point (line 132)
InterpolateError(gt) ==
    IF Len(gt) = 0 THEN "IndexError"
    ELSE IF Len(gt) = 1 THEN "ValueError"
    ELSE "none"

PipelineLocals == <<processed_imu, imu_seq_len, imu_img_tensor, gt_v_tensor,
                    test_indexes>>
Files == <<imu_csv, gt_csv, scaler_save, train_mat, test_mat, scaler_dir_txt>>
SelfVars == <<self_imu_data, self_gt_data, self_stage, self_scaler_save>>
RootVars == <<cur_root, shelf>>

interpolate_ground_truth ==
    /\ pc = "interpolate"
    /\ hist' = [hist EXCEPT !.align_in = raw_imu_data,
                            !.stages = @ \cup {"interpolate"}]
    /\ IF InterpolateError(ground_truth_data) # "none"
       THEN /\ pc' = "raised"
            /\ error' = InterpolateError(ground_truth_data)
            /\ UNCHANGED <<raw_imu_data, gt_v_interp>>
       ELSE LET trimmed == TrimToSpan(raw_imu_data, Timestamps(ground_truth_data))
            IN  /\ raw_imu_data' = trimmed
                /\ gt_v_interp' = InterpVelocity(ground_truth_data, Timestamps(trimmed))
                /\ pc' = "pre_process"
                /\ UNCHANGED error
    /\ UNCHANGED <<processed_ds_available, ground_truth_data, PipelineLocals,
                   Files, SelfVars, RootVars>>

\* data.utils.data_utils.interpolate_ts is not among the sources: per-axis
\* piecewise-linear resampling, failing on fewer than two ground-truth
\* samples or an empty trimmed series
interpolate_ts_fails(gt_timestamps, imu_timestamps) ==
    Len(gt_timestamps) < 2 \/ Len(imu_timestamps) = 0

interpolate_ts(gt_timestamps, imu_timestamps, vals) ==
    [i \in DOMAIN imu_timestamps |->
        <<interp1d(gt_timestamps, Axis(vals, 1), imu_timestamps[i]),
          interp1d(gt_timestamps, Axis(vals, 2), imu_timestamps[i]),
          interp1d(gt_timestamps, Axis(vals, 3), imu_timestamps[i])>>]

\* InertialDataset.interpolate_ground_truth (velocity channel)
InertialDataset_interpolate_ground_truth ==
    /\ self_stage = "raw"
    /\ IF Len(self_gt_data) = 0
       THEN /\ self_stage' = "raised"
            /\ UNCHANGED <<self_imu_data, self_gt_data>>
       ELSE LET gt_timestamps == Timestamps(self_gt_data)
                x_data == TrimToSpan(self_imu_data, gt_timestamps)
                imu_timestamps == Timestamps(x_data)
                gt_vel == [k \in DOMAIN self_gt_data |-> self_gt_data[k].vel]
            IN  /\ self_imu_data' = x_data
                /\ IF interpolate_ts_fails(gt_timestamps, imu_timestamps)
                   THEN /\ self_stage' = "raised"
                        /\ UNCHANGED self_gt_data
                   ELSE /\ self_stage' = "aligned"
                        /\ self_gt_data' =
                              LET v == interpolate_ts(gt_timestamps, imu_timestamps, gt_vel)
                              IN  [j \in DOMAIN v |-> GT(imu_timestamps[j], v[j])]
    /\ UNCHANGED <<pc, processed_ds_available, raw_imu_data, ground_truth_data,
                   gt_v_interp, PipelineLocals, Files, error, hist,
                   self_scaler_save, RootVars>>

---------------------------------------------------------------------------
(* Inputs of the interpolation specification *)

\* the reading the enumerated IMU series carries at timestamp t
ReadingAt(t) == IMU(t, <<t, 0 - t, 1>>, <<2 * t, 1, t - 2>>)

ImuSeries(ts) == [k \in DOMAIN ts |-> ReadingAt(ts[k])]

\* velocities the enumerated ground-truth samples take
VelChoices == {<<0, 0, 0>>, <<1, -2, 3>>}

GtSeriesOver(ts) ==
    {[k \in DOMAIN ts |-> GT(ts[k], v[k])] : v \in [DOMAIN ts -> VelChoices]}

\* the end-to-end scenario: IMU timestamps 0..99, ground truth at 0, 50, 99
ScenarioImu == ImuSeries([k \in 1..100 |-> k - 1])
ScenarioGt  == <<GT(0, <<0, 0, 0>>), GT(50, <<1, 0, 0>>), GT(99, <<2, 0, 0>>)>>

EmptyHist == [align_in |-> <<>>, stages |-> {}, read_failed |-> FALSE,
              calls |-> 0, runs |-> <<>>, committed |-> <<AbsentFile, AbsentFile>>,
              first_scaler |-> NoScaler, test_scaler |-> NoScaler,
              test_x |-> <<>>, add_roots |-> <<>>, test_root |-> NoneVal]

InitIdleRest ==
    /\ processed_ds_available = FALSE
    /\ gt_v_interp = <<>>
    /\ processed_imu = <<>>
    /\ imu_seq_len = 1
    /\ imu_img_tensor = <<>>
    /\ gt_v_tensor = <<>>
    /\ test_indexes = <<>>
    /\ scaler_save = NoScaler
    /\ train_mat = AbsentFile
    /\ test_mat = AbsentFile
    /\ scaler_dir_txt = NoneVal
    /\ error = "none"
    /\ hist = EmptyHist

InitInterp ==
    /\ \/ /\ \E S \in SUBSET (0..MaxT) : imu_csv = ImuSeries(SortedSeq(S))
          /\ \E S \in SUBSET (0..MaxT) :
                /\ Cardinality(S) <= MaxGt
                /\ gt_csv \in GtSeriesOver(SortedSeq(S))
       \/ /\ imu_csv = ScenarioImu
          /\ gt_csv = ScenarioGt
    /\ raw_imu_data = imu_csv
    /\ ground_truth_data = gt_csv
    /\ self_imu_data = imu_csv
    /\ self_gt_data = gt_csv
    /\ self_stage = "raw"
    /\ self_scaler_save = NoClassScaler
    /\ cur_root = euroc_dir
    /\ shelf = [r \in Roots |-> EmptyRoot]
    /\ pc = "interpolate"
    /\ InitIdleRest

NextInterp ==
    \/ interpolate_ground_truth
    \/ InertialDataset_interpolate_ground_truth

SpecInterp == InitInterp /\ [][NextInterp]_vars

---------------------------------------------------------------------------
(* pre_process_data *)

\* Stand-ins for the coefficients of signal.butter(10, w0), which are not
\* rational: a first-order low-pass section with a[0] = 1
b_bw == <<1, 1>>
a_bw == <<1>>

\* signal.lfilter(b, a, x) along the time axis (a[0] = 1): the causal
\* difference equation y[n] = sum b[k] x[n-k] - sum a[k] y[n-k], n 1-based
RECURSIVE lfilter(_, _, _, _)
lfilter(b, a, x, n) ==
    IF n = 0 THEN <<>>
    ELSE LET y == lfilter(b, a, x, n - 1)
             RECURSIVE SumB(_), SumA(_)
             SumB(k) == IF k > Len(b) THEN 0
                        ELSE (IF n - (k - 1) >= 1 THEN b[k] * x[n - (k - 1)] ELSE 0)
                             + SumB(k + 1)
             SumA(k) == IF k > Len(a) THEN 0
                        ELSE (IF n - (k - 1) >= 1 THEN a[k] * y[n - (k - 1)] ELSE 0)
                             + SumA(k + 1)
         IN  Append(y, SumB(1) - SumA(2))

SetMin(S) == CHOOSE x \in S : \A y \in S : x <= y
SetMax(S) == CHOOSE x \in S : \A y \in S : x >= y

\* line 174: only the accelerometer block filt_imu_vec[:, 1, :] is filtered
FilterImu(imu) ==
    LET accAxis(c) == lfilter(b_bw, a_bw, [k \in DOMAIN imu |-> imu[k].acc[c]], Len(imu))
        fx == accAxis(1)
        fy == accAxis(2)
        fz == accAxis(3)
    IN  [k \in DOMAIN imu |-> [gyro |-> imu[k].gyro, acc |-> <<fx[k], fy[k], fz[k]>>]]

\* MinMaxScaler().fit(block.reshape(-1, 1)): one feature, so one data_min_ and
\* one data_max_ over all axes and all timesteps of the block
MinMaxScalerFit(vecs) ==
    LET pooled == UNION {Range(vecs[k]) : k \in DOMAIN vecs}
    IN  <<SetMin(pooled), SetMax(pooled)>>

\* lines 210-216: the two scalers, as dumped to the dataset root
FitScalers(filt_imu_vec) ==
    [state |-> "saved",
     g |-> MinMaxScalerFit([k \in DOMAIN filt_imu_vec |-> filt_imu_vec[k].gyro]),
     a |-> MinMaxScalerFit([k \in DOMAIN filt_imu_vec |-> filt_imu_vec[k].acc])]

pre_process_data ==
    /\ pc = "pre_process"
    /\ hist' = [hist EXCEPT !.stages = @ \cup {"pre_process"}]
    /\ IF Len(raw_imu_data) = 0
       THEN \* imu_vec[:, 1, 1] of an array of shape (0,) (line 167)
            /\ pc' = "raised"
            /\ error' = "IndexError"
            /\ UNCHANGED <<processed_imu, scaler_save>>
       ELSE LET filt_imu_vec == FilterImu(raw_imu_data)
            IN  /\ processed_imu' = filt_imu_vec
                /\ scaler_save' = FitScalers(filt_imu_vec)
                /\ pc' = "generate"
                /\ UNCHANGED error
    /\ UNCHANGED <<processed_ds_available, raw_imu_data, ground_truth_data,
                   gt_v_interp, imu_seq_len, imu_img_tensor, gt_v_tensor,
                   test_indexes, imu_csv, gt_csv, train_mat, test_mat,
                   scaler_dir_txt, SelfVars, RootVars>>

---------------------------------------------------------------------------
(* InertialDataset.basic_preprocessing (inertial_ABCs.py, lines 94-146) *)

\* data.utils.data_utils.filter_with_coeffs(a, b, x, fs, plot) without the
\* plot: the filter run along the time axis over each of the three columns
\* of x, the order of the columns kept
filter_with_coeffs(a, b, x) ==
    LET column(c) == lfilter(b, a, [k \in DOMAIN x |-> x[k][c]], Len(x))
        fx == column(1)
        fy == column(2)
        fz == column(3)
    IN  [k \in DOMAIN x |-> <<fx[k], fy[k], fz[k]>>]

\* MinMaxScaler().fit(X) for X = np.stack(imu_unroll[:, i]) of shape (n, 3):
\* three features, so data_min_ and data_max_ hold one entry per column
MinMaxScalerFitColumns(X) ==
    [data_min |-> [c \in 1..3 |-> SetMin({X[k][c] : k \in DOMAIN X})],
     data_max |-> [c \in 1..3 |-> SetMax({X[k][c] : k \in DOMAIN X})]]

InertialDataset_basic_preprocessing ==
    /\ self_stage \in {"raw", "aligned"}
    /\ IF Len(self_imu_data) = 0
       THEN \* np.shape(imu_unroll)[1] of an array of shape (0,) (line 112)
            /\ self_stage' = "raised"
            /\ UNCHANGED <<self_imu_data, self_scaler_save>>
       ELSE LET gyro == filter_with_coeffs(a_bw, b_bw,
                            [k \in DOMAIN self_imu_data |-> self_imu_data[k].gyro])
                acc  == filter_with_coeffs(a_bw, b_bw,
                            [k \in DOMAIN self_imu_data |-> self_imu_data[k].acc])
            IN  /\ self_imu_data' =
                      [k \in DOMAIN self_imu_data |->
                          [self_imu_data[k] EXCEPT !.gyro = gyro[k], !.acc = acc[k]]]
                /\ self_scaler_save' = [state |-> "saved",
                                        g |-> MinMaxScalerFitColumns(gyro),
                                        a |-> MinMaxScalerFitColumns(acc)]
                /\ self_stage' = "processed"
    /\ UNCHANGED <<pc, processed_ds_available, raw_imu_data, ground_truth_data,
                   gt_v_interp, PipelineLocals, Files, error, hist,
                   self_gt_data, RootVars>>

---------------------------------------------------------------------------
(* generate_euroc_imu_dataset: the windows (lines 232-250) *)

\* a row of np.zeros((imu_len, 6)); src -1 marks that no sample was copied
ZeroRow == [src |-> -1, val |-> <<0, 0, 0, 0, 0, 0>>]

\* raw_imu[k, :, :].reshape(6): gyro then acc of the sample of index k
SampleRow(raw_imu, k) ==
    [src |-> k, val |-> At(raw_imu, k).gyro \o At(raw_imu, k).acc]

\* the body of the loop for index i: imu_img, rows 0 .. imu_len-1
imu_img(raw_imu, i, imu_len) ==
    IF i < imu_len
    THEN \* imu_img[imu_len - i - 1:imu_len, :] = raw_imu[0:i+1]
         [r \in 1..imu_len |->
            IF r - 1 >= imu_len - i - 1
            THEN SampleRow(raw_imu, (r - 1) - (imu_len - i - 1))
            ELSE ZeroRow]
    ELSE \* imu_img = raw_imu[i:i + imu_len]
         [r \in 1..imu_len |-> SampleRow(raw_imu, i + (r - 1))]

\* range(len(raw_imu) - imu_len)
LoopRange(n, imu_len) == 0..(n - imu_len - 1)

\* np.linalg.norm(v) of a vector of rationals, represented by its square
linalg_norm(v) ==
    FracAdd(FracAdd(FracMul(v[1], v[1]), FracMul(v[2], v[2])), FracMul(v[3], v[3]))

\* imu_img_tensor after the loop: np.zeros where the loop did not write
WindowTensor(raw_imu, imu_len) ==
    [w \in 1..Len(raw_imu) |->
        [id |-> w - 1,
         rows |-> IF (w - 1) \in LoopRange(Len(raw_imu), imu_len)
                  THEN imu_img(raw_imu, w - 1, imu_len)
                  ELSE [r \in 1..imu_len |-> ZeroRow]]]

\* gt_v_tensor after the loop
TargetTensor(raw_imu, gt_v, imu_len) ==
    [w \in 1..Len(raw_imu) |->
        [id |-> w - 1,
         y |-> IF (w - 1) \in LoopRange(Len(raw_imu), imu_len)
               THEN linalg_norm(At(gt_v, w - 1))
               ELSE FracOfInt(0)]]

generate_windows ==
    /\ pc = "generate"
    /\ hist' = [hist EXCEPT !.stages = @ \cup {"generate"}]
    /\ imu_img_tensor' = WindowTensor(processed_imu, imu_seq_len)
    /\ gt_v_tensor' = TargetTensor(processed_imu, gt_v_interp, imu_seq_len)
    /\ pc' = "reset_train"
    /\ UNCHANGED <<processed_ds_available, raw_imu_data, ground_truth_data,
                   gt_v_interp, processed_imu, imu_seq_len, test_indexes,
                   Files, error, SelfVars, RootVars>>

---------------------------------------------------------------------------
(* Inputs of the window specification *)

\* (gyro, acc) readings the enumerated aligned series carries
WinReadings == {[gyro |-> <<0, 0, 0>>, acc |-> <<0, 0, 0>>],
                [gyro |-> <<1, -1, 2>>, acc |-> <<3, 0, -2>>]}

\* the interpolated velocity the enumerated series carries at index i
VelAt(i) == <<Frac(i + 1, 2), FracOfInt(1), FracOfInt(0)>>

InitWindow ==
    /\ \E n \in 0..MaxN :
          /\ processed_imu \in [1..n -> WinReadings]
          /\ gt_v_interp = [k \in 1..n |-> VelAt(k - 1)]
    /\ imu_seq_len \in 1..MaxL
    /\ pc = "generate"
    /\ processed_ds_available = FALSE
    /\ imu_csv = <<>>
    /\ gt_csv = <<>>
    /\ raw_imu_data = <<>>
    /\ ground_truth_data = <<>>
    /\ imu_img_tensor = <<>>
    /\ gt_v_tensor = <<>>
    /\ test_indexes = <<>>
    /\ scaler_save = NoScaler
    /\ train_mat = AbsentFile
    /\ test_mat = AbsentFile
    /\ scaler_dir_txt = NoneVal
    /\ error = "none"
    /\ hist = EmptyHist
    /\ self_imu_data = <<>>
    /\ self_gt_data = <<>>
    /\ self_stage = "unset"
    /\ self_scaler_save = NoClassScaler
    /\ cur_root = euroc_dir
    /\ shelf = [r \in Roots |-> EmptyRoot]

NextWindow == generate_windows

SpecWindow == InitWindow /\ [][NextWindow]_vars

---------------------------------------------------------------------------
(* generate_euroc_imu_dataset: the files and the train/test split
   (lines 252-280) *)

\* np.ceil(n * 0.1): the holdout fraction 0.1 as the rational 1/10
HoldoutNum == 1
HoldoutDen == 10

HoldoutSize(n) == (n * HoldoutNum + HoldoutDen - 1) \div HoldoutDen

\* np.random.choice(n, k, replace=False): k distinct indices of 0..n-1, in
\* any order; the generator is numpy's global one and is never seeded
RandomChoice(n, k) ==
    {s \in [1..k -> 0..(n - 1)] : \A p, q \in 1..k : p # q => s[p] # s[q]}

\* arr[indexes]: the entries at the given positions, in the order given
np_take(arr, indexes) == [k \in DOMAIN indexes |-> At(arr, indexes[k])]

\* a delete that removes nothing
np_delete_none(arr, indexes) == arr

\* np.delete(arr, indexes, 0): the entries at the other positions, in order
np_delete(arr, indexes) ==
    LET keep == {k \in DOMAIN arr : (k - 1) \notin Range(indexes)}
        pos  == SortedSeq(keep)
    IN  [j \in DOMAIN pos |-> arr[pos[j]]]

MatFile(x, y) == [state |-> "complete", imu |-> x, y |-> y]

\* lines 255-257: remove the old training file, create an empty node
reset_train_file ==
    /\ pc = "reset_train"
    /\ train_mat' = EmptyFile
    /\ pc' = "reset_test"
    /\ UNCHANGED <<processed_ds_available, raw_imu_data, ground_truth_data,
                   gt_v_interp, PipelineLocals, imu_csv, gt_csv, scaler_save,
                   test_mat, scaler_dir_txt, error, SelfVars, RootVars, hist>>

\* lines 259-261: the same for the testing file
reset_test_file ==
    /\ pc = "reset_test"
    /\ test_mat' = EmptyFile
    /\ pc' = "choose_test"
    /\ UNCHANGED <<processed_ds_available, raw_imu_data, ground_truth_data,
                   gt_v_interp, PipelineLocals, imu_csv, gt_csv, scaler_save,
                   train_mat, scaler_dir_txt, error, SelfVars, RootVars, hist>>

\* lines 267-271
choose_test_indexes ==
    /\ pc = "choose_test"
    /\ LET total_ds_len == Len(gt_v_tensor)
           test_ds_len  == HoldoutSize(total_ds_len)
       IN  test_indexes' \in RandomChoice(total_ds_len, test_ds_len)
    /\ pc' = "save_train"
    /\ hist' = [hist EXCEPT !.stages = @ \cup {"split"}]
    /\ UNCHANGED <<processed_ds_available, raw_imu_data, ground_truth_data,
                   gt_v_interp, processed_imu, imu_seq_len, imu_img_tensor,
                   gt_v_tensor, Files, error, SelfVars, RootVars>>

\* lines 276-279: the training file holds what np.delete leaves
save_train_file ==
    /\ pc = "save_train"
    /\ train_mat' = MatFile(np_delete(imu_img_tensor, test_indexes),
                            np_delete(gt_v_tensor, test_indexes))
    /\ pc' = "save_test"
    /\ UNCHANGED <<processed_ds_available, raw_imu_data, ground_truth_data,
                   gt_v_interp, PipelineLocals, imu_csv, gt_csv, scaler_save,
                   test_mat, scaler_dir_txt, error, SelfVars, RootVars, hist>>

\* lines 273-274, 280: the testing file holds the drawn entries
save_test_file ==
    /\ pc = "save_test"
    /\ test_mat' = MatFile(np_take(imu_img_tensor, test_indexes),
                           np_take(gt_v_tensor, test_indexes))
    /\ pc' = "add_scalers"
    /\ hist' = [hist EXCEPT !.committed = <<train_mat, test_mat'>>]
    /\ UNCHANGED <<processed_ds_available, raw_imu_data, ground_truth_data,
                   gt_v_interp, PipelineLocals, imu_csv, gt_csv, scaler_save,
                   train_mat, scaler_dir_txt, error, SelfVars, RootVars>>

\* an operating-system call of lines 255-280 raises OSError (no permission to
\* create the node, no space left for savemat): the exception leaves
\* load_euroc_dataset, nothing in the code undoes the steps already taken
io_failure ==
    /\ pc \in {"reset_train", "reset_test", "save_train", "save_test"}
    /\ \/ /\ pc = "reset_train"      \* os.remove done, os.mknod raised
          /\ train_mat' = AbsentFile
          /\ UNCHANGED test_mat
       \/ /\ pc = "reset_test"
          /\ test_mat' = AbsentFile
          /\ UNCHANGED train_mat
       \/ /\ pc = "save_train"       \* savemat raised before or while writing
          /\ train_mat' \in {EmptyFile, PartialFile}
          /\ UNCHANGED test_mat
       \/ /\ pc = "save_test"
          /\ test_mat' \in {EmptyFile, PartialFile}
          /\ UNCHANGED train_mat
    /\ pc' = "raised"
    /\ error' = "OSError"
    /\ UNCHANGED <<processed_ds_available, raw_imu_data, ground_truth_data,
                   gt_v_interp, PipelineLocals, imu_csv, gt_csv, scaler_save,
                   scaler_dir_txt, SelfVars, RootVars, hist>>

---------------------------------------------------------------------------
(* read_euroc_dataset *)

\* where the try block of lines 71-102 is left: "none" (all three files read),
\* or the file whose open or read raised IOError (yaml.YAMLError for the yaml
\* file) after k rows had been appended
ReadOutcomes(imu_rows, gt_rows) ==
    {[at |-> "none", k |-> 0], [at |-> "yaml", k |-> 0]}
    \cup {[at |-> "imu", k |-> k] : k \in 0..(Len(imu_rows) - 1)}
    \cup {[at |-> "gt", k |-> k] : k \in 0..(Len(gt_rows) - 1)}

\* raw_imu_data when the function returns (line 110)
ReadImu(o, imu_rows) ==
    IF o.at = "imu" THEN SubSeq(imu_rows, 1, o.k) ELSE imu_rows

\* ground_truth_data when the function returns: empty unless the third with
\* block was entered
ReadGt(o, gt_rows) ==
    IF o.at = "none" THEN gt_rows
    ELSE IF o.at = "gt" THEN SubSeq(gt_rows, 1, o.k)
    ELSE <<>>

\* both except clauses only print; the function returns what it has
read_euroc_dataset ==
    /\ pc = "read"
    /\ \E o \in ReadOutcomes(imu_csv, gt_csv) :
          /\ raw_imu_data' = ReadImu(o, imu_csv)
          /\ ground_truth_data' = ReadGt(o, gt_csv)
          /\ hist' = [hist EXCEPT !.read_failed = (o.at # "none"),
                                  !.stages = @ \cup {"read"}]
    /\ pc' = "interpolate"
    /\ UNCHANGED <<processed_ds_available, gt_v_interp, PipelineLocals, Files,
                   error, SelfVars, RootVars>>

---------------------------------------------------------------------------
(* add_scalers_to_training_dir, generate_cnn_training_dataset,
   generate_cnn_testing_dataset *)

\* a pointer file every call writes
PointerOverwritten(old, root) == root

\* lines 370-376: scaler_files_dir.txt after add_scalers_to_training_dir(root,
\* destiny): created and written only when it does not exist
PointerAfter(old, root) == IF old = NoneVal THEN root ELSE old

\* line 403: the call add_scalers_to_training_dir(euroc_dir, trained_model_dir)
add_scalers_to_training_dir ==
    /\ pc = "add_scalers"
    /\ scaler_dir_txt' = PointerAfter(scaler_dir_txt, cur_root)
    /\ pc' = "cnn_training"
    /\ hist' = [hist EXCEPT !.stages = @ \cup {"add_scalers"},
                            !.add_roots = Append(@, cur_root)]
    /\ UNCHANGED <<processed_ds_available, raw_imu_data, ground_truth_data,
                   gt_v_interp, PipelineLocals, imu_csv, gt_csv, scaler_save,
                   train_mat, test_mat, error, SelfVars, RootVars>>

\* MinMaxScaler.transform: X * scale_ + min_, scale_ = 1 / (data_max - data_min)
\* (1 when the range is zero), min_ = 0 - data_min * scale_
MinMaxTransform(params, x) ==
    IF params[2] = params[1] THEN FracOfInt(x - params[1])
    ELSE Frac(x - params[1], params[2] - params[1])

\* lines 305-307: columns 0..2 through scale_g, columns 3..5 through scale_a
ScaleRow(scaler, row) ==
    [src |-> row.src,
     val |-> [c \in 1..6 |-> IF c <= 3 THEN MinMaxTransform(scaler.g, row.val[c])
                             ELSE MinMaxTransform(scaler.a, row.val[c])]]

ScaleTensor(scaler, tensor) ==
    [w \in DOMAIN tensor |->
        [id |-> tensor[w].id,
         rows |-> [r \in DOMAIN tensor[w].rows |-> ScaleRow(scaler, tensor[w].rows[r])]]]

\* the exception generate_cnn_training_dataset raises before it splits, or
\* "none": loadmat of a missing or unfinished file, joblib.load of a missing
\* scaler file
LoadError(mat, scaler) ==
    IF mat.state = "absent" THEN "IOError"
    ELSE IF mat.state # "complete" THEN "MatReadError"
    ELSE IF scaler.state = "absent" THEN "IOError"
    ELSE "none"

Idle == pc \in {"idle", "done", "raised"}

\* the scaler files joblib.load finds under scaler_dir (lines 302-303)
ScalerUnder(scaler_dir) ==
    IF scaler_dir = cur_root THEN scaler_save ELSE shelf[scaler_dir].scaler_save

generate_cnn_training_dataset ==
    /\ pc = "cnn_training"
    /\ \/ /\ LoadError(train_mat, ScalerUnder(scaler_dir_txt)) # "none"
          /\ pc' = "raised"
          /\ error' = LoadError(train_mat, ScalerUnder(scaler_dir_txt))
          /\ hist' = [hist EXCEPT !.stages = @ \cup {"cnn_training"}]
       \/ \* an empty training file: y[0] of loadmat and np.random.choice of
          \* an empty range raise in some numpy/scipy versions
          /\ LoadError(train_mat, ScalerUnder(scaler_dir_txt)) = "none"
          /\ Len(train_mat.y) = 0
          /\ pc' = "raised"
          /\ error' = "ValueError"
          /\ hist' = [hist EXCEPT !.stages = @ \cup {"cnn_training"}]
       \/ /\ LoadError(train_mat, ScalerUnder(scaler_dir_txt)) = "none"
          /\ LET scaled == ScaleTensor(ScalerUnder(scaler_dir_txt), train_mat.imu)
                 gt_v   == train_mat.y
                 full_ds_len == Len(gt_v)
                 val_ds_len  == HoldoutSize(full_ds_len)
             IN  \E val_ds_indexes \in RandomChoice(full_ds_len, val_ds_len) :
                    hist' = [hist EXCEPT
                        !.stages = @ \cup {"cnn_training"},
                        !.first_scaler = IF @.state = "absent" THEN ScalerUnder(scaler_dir_txt) ELSE @,
                        !.runs = Append(@,
                            [generated |-> ~processed_ds_available,
                             input |-> <<hist.align_in, ground_truth_data>>,
                             seq_len |-> imu_seq_len,
                             scaler |-> ScalerUnder(scaler_dir_txt),
                             scaler_root |-> scaler_dir_txt,
                             test_indexes |-> test_indexes,
                             val_indexes |-> val_ds_indexes,
                             loaded |-> train_mat,
                             test |-> test_mat,
                             train_x |-> np_delete(scaled, val_ds_indexes),
                             train_y |-> np_delete(gt_v, val_ds_indexes),
                             val_x |-> np_take(scaled, val_ds_indexes),
                             val_y |-> np_take(gt_v, val_ds_indexes)])]
          /\ pc' = "done"
          /\ UNCHANGED error
    /\ UNCHANGED <<processed_ds_available, raw_imu_data, ground_truth_data,
                   gt_v_interp, PipelineLocals, Files, SelfVars, RootVars>>

\* called between load_euroc_dataset calls; when a file it opens is missing
\* it raises and changes nothing
generate_cnn_testing_dataset ==
    /\ Idle
    /\ scaler_dir_txt # NoneVal
    /\ test_mat.state = "complete"
    /\ LET scaler == ScalerUnder(scaler_dir_txt)
           scaled == ScaleTensor(scaler, test_mat.imu)
       IN  /\ scaler.state = "saved"
           /\ <<hist.test_scaler, hist.test_x, hist.test_root>>
                 # <<scaler, scaled, scaler_dir_txt>>
           /\ hist' = [hist EXCEPT !.test_scaler = scaler, !.test_x = scaled,
                                   !.test_root = scaler_dir_txt]
    /\ UNCHANGED <<pc, processed_ds_available, raw_imu_data, ground_truth_data,
                   gt_v_interp, PipelineLocals, Files, error, SelfVars, RootVars>>

---------------------------------------------------------------------------
(* load_euroc_dataset and its environment *)

\* the recordings a dataset root can hold: IMU samples at timestamps 0..5,
\* ground truth at 0, 3 and 5
PipeImu(scale) ==
    [k \in 1..6 |-> IMU(k - 1, <<scale * (k - 1), 0 - scale, 1>>, <<scale, 2, k - 3>>)]

PipeGt == <<GT(0, <<0, 0, 0>>), GT(3, <<3, 0, 4>>), GT(5, <<1, 2, 2>>)>>

Datasets == {<<PipeImu(1), PipeGt>>, <<PipeImu(2), PipeGt>>}

\* the files under the root the running call was given
CurrentFiles ==
    [imu_csv |-> imu_csv, gt_csv |-> gt_csv, scaler_save |-> scaler_save,
     train_mat |-> train_mat, test_mat |-> test_mat]

\* lines 394-401: the call with euroc_dir = root and its branch on
\* processed_ds_available; the paths of the call name the files under root
load_euroc_dataset_at(root) ==
    /\ Idle
    /\ hist.calls < MaxRuns
    /\ \E avail \in BOOLEAN, L \in 1..MaxSeqLen :
          /\ processed_ds_available' = avail
          /\ imu_seq_len' = L
          /\ pc' = IF avail THEN "add_scalers" ELSE "read"
    /\ error' = "none"
    /\ hist' = [hist EXCEPT !.calls = @ + 1, !.stages = {}, !.read_failed = FALSE]
    /\ cur_root' = root
    /\ IF root = cur_root
       THEN UNCHANGED <<imu_csv, gt_csv, scaler_save, train_mat, test_mat, shelf>>
       ELSE /\ imu_csv' = shelf[root].imu_csv
            /\ gt_csv' = shelf[root].gt_csv
            /\ scaler_save' = shelf[root].scaler_save
            /\ train_mat' = shelf[root].train_mat
            /\ test_mat' = shelf[root].test_mat
            /\ shelf' = [shelf EXCEPT ![cur_root] = CurrentFiles, ![root] = EmptyRoot]
    /\ UNCHANGED <<raw_imu_data, ground_truth_data, gt_v_interp, processed_imu,
                   imu_img_tensor, gt_v_tensor, test_indexes, scaler_dir_txt,
                   SelfVars>>

load_euroc_dataset == load_euroc_dataset_at(euroc_dir)

\* between two calls the recording under the dataset root is replaced
ChangeInput ==
    /\ Idle
    /\ \E d \in Datasets :
          /\ d # <<imu_csv, gt_csv>>
          /\ imu_csv' = d[1]
          /\ gt_csv' = d[2]
    /\ UNCHANGED <<pc, processed_ds_available, raw_imu_data, ground_truth_data,
                   gt_v_interp, PipelineLocals, scaler_save, train_mat, test_mat,
                   scaler_dir_txt, error, SelfVars, RootVars, hist>>

Init ==
    /\ \E d \in Datasets :
          /\ imu_csv = d[1]
          /\ gt_csv = d[2]
    /\ raw_imu_data = <<>>
    /\ ground_truth_data = <<>>
    /\ self_imu_data = <<>>
    /\ self_gt_data = <<>>
    /\ self_stage = "unset"
    /\ self_scaler_save = NoClassScaler
    /\ cur_root = euroc_dir
    /\ shelf = [r \in Roots |-> EmptyRoot]
    /\ pc = "idle"
    /\ InitIdleRest

Next ==
    \/ load_euroc_dataset
    \/ read_euroc_dataset
    \/ interpolate_ground_truth
    \/ pre_process_data
    \/ generate_windows
    \/ reset_train_file
    \/ reset_test_file
    \/ choose_test_indexes
    \/ save_train_file
    \/ save_test_file
    \/ io_failure
    \/ add_scalers_to_training_dir
    \/ generate_cnn_training_dataset
    \/ generate_cnn_testing_dataset
    \/ ChangeInput

Spec == Init /\ [][Next]_vars

---------------------------------------------------------------------------
(* The split specification: the state generate_euroc_imu_dataset is in after
   its loop, for an aligned series of n samples, and the steps from there *)

InitSplit ==
    /\ \E n \in 1..MaxSplitN :
          /\ raw_imu_data = ImuSeries([k \in 1..n |-> k])
          /\ gt_v_interp = [k \in 1..n |-> VelAt(k - 1)]
    /\ processed_imu = FilterImu(raw_imu_data)
    /\ scaler_save = FitScalers(processed_imu)
    /\ imu_seq_len = 1
    /\ imu_img_tensor = WindowTensor(processed_imu, imu_seq_len)
    /\ gt_v_tensor = TargetTensor(processed_imu, gt_v_interp, imu_seq_len)
    /\ pc = "reset_train"
    /\ processed_ds_available = FALSE
    /\ imu_csv = <<>>
    /\ gt_csv = <<>>
    /\ ground_truth_data = <<>>
    /\ test_indexes = <<>>
    /\ train_mat = AbsentFile
    /\ test_mat = AbsentFile
    /\ scaler_dir_txt = NoneVal
    /\ error = "none"
    /\ hist = EmptyHist
    /\ self_imu_data = <<>>
    /\ self_gt_data = <<>>
    /\ self_stage = "unset"
    /\ self_scaler_save = NoClassScaler
    /\ cur_root = euroc_dir
    /\ shelf = [r \in Roots |-> EmptyRoot]

NextSplit ==
    \/ reset_train_file
    \/ reset_test_file
    \/ choose_test_indexes
    \/ save_train_file
    \/ save_test_file
    \/ add_scalers_to_training_dir
    \/ generate_cnn_training_dataset

SpecSplit == InitSplit /\ [][NextSplit]_vars

---------------------------------------------------------------------------
(* Inputs of the scaling specification: pre_process_data to
   generate_cnn_training_dataset / generate_cnn_testing_dataset on series
   whose accelerometer readings are all positive *)

MaxScaleN == 3
MaxScaleL == 2

\* (gyro, acc) readings the enumerated raw series carries
ScaleReadings == {[gyro |-> <<-2, 0, 2>>, acc |-> <<1, 2, 3>>],
                  [gyro |-> <<1, 2, 3>>, acc |-> <<1, 1, 2>>]}

InitScale ==
    /\ \E n \in 1..MaxScaleN :
          /\ \E f \in [1..n -> ScaleReadings] :
                raw_imu_data = [k \in 1..n |-> IMU(k - 1, f[k].gyro, f[k].acc)]
          /\ gt_v_interp = [k \in 1..n |-> VelAt(k - 1)]
    /\ imu_seq_len \in 1..MaxScaleL
    /\ pc = "pre_process"
    /\ processed_ds_available = FALSE
    /\ imu_csv = <<>>
    /\ gt_csv = <<>>
    /\ ground_truth_data = <<>>
    /\ processed_imu = <<>>
    /\ imu_img_tensor = <<>>
    /\ gt_v_tensor = <<>>
    /\ test_indexes = <<>>
    /\ scaler_save = NoScaler
    /\ train_mat = AbsentFile
    /\ test_mat = AbsentFile
    /\ scaler_dir_txt = NoneVal
    /\ error = "none"
    /\ hist = EmptyHist
    /\ self_imu_data = raw_imu_data
    /\ self_gt_data = [k \in DOMAIN gt_v_interp |-> GT(k - 1, gt_v_interp[k])]
    /\ self_stage = "aligned"
    /\ self_scaler_save = NoClassScaler
    /\ cur_root = euroc_dir
    /\ shelf = [r \in Roots |-> EmptyRoot]

NextScale ==
    \/ pre_process_data
    \/ InertialDataset_basic_preprocessing
    \/ generate_windows
    \/ reset_train_file
    \/ reset_test_file
    \/ choose_test_indexes
    \/ save_train_file
    \/ save_test_file
    \/ add_scalers_to_training_dir
    \/ generate_cnn_training_dataset
    \/ generate_cnn_testing_dataset

SpecScale == InitScale /\ [][NextScale]_vars

---------------------------------------------------------------------------
(* load_euroc_dataset called with one training directory and two dataset
   roots *)

\* the recording under a dataset root: IMU samples at timestamps 0..3, ground
\* truth at 0 and 3
RootImu(scale) ==
    [k \in 1..4 |-> IMU(k - 1, <<scale * (k - 1), 0 - scale, 1>>, <<scale, 2, k - 3>>)]

RootGt == <<GT(0, <<0, 0, 0>>), GT(3, <<3, 0, 4>>)>>

InitRoots ==
    /\ imu_csv = RootImu(1)
    /\ gt_csv = RootGt
    /\ cur_root = euroc_dir
    /\ shelf = [r \in Roots |->
                  IF r = other_dir
                  THEN [EmptyRoot EXCEPT !.imu_csv = RootImu(2), !.gt_csv = RootGt]
                  ELSE EmptyRoot]
    /\ raw_imu_data = <<>>
    /\ ground_truth_data = <<>>
    /\ self_imu_data = <<>>
    /\ self_gt_data = <<>>
    /\ self_stage = "unset"
    /\ self_scaler_save = NoClassScaler
    /\ pc = "idle"
    /\ InitIdleRest

NextRoots ==
    \/ \E root \in Roots : load_euroc_dataset_at(root)
    \/ read_euroc_dataset
    \/ interpolate_ground_truth
    \/ pre_process_data
    \/ generate_windows
    \/ reset_train_file
    \/ reset_test_file
    \/ choose_test_indexes
    \/ save_train_file
    \/ save_test_file
    \/ add_scalers_to_training_dir
    \/ generate_cnn_training_dataset
    \/ generate_cnn_testing_dataset

SpecRoots == InitRoots /\ [][NextRoots]_vars

---------------------------------------------------------------------------
(* Properties *)

Ids(entries) == {entries[k].id : k \in DOMAIN entries}

\* the windows exist: the loop of generate_euroc_imu_dataset has run
WindowsBuilt == pc = "reset_train" /\ Len(imu_img_tensor) = Len(processed_imu)

\* C1: no window reads a sample of the future: every row of the history of
\* window i was copied from a series index <= i.
C1_NoFutureLeakage ==
    WindowsBuilt =>
        \A i \in 0..(Len(imu_img_tensor) - 1) :
            \A r \in DOMAIN At(imu_img_tensor, i).rows :
                At(imu_img_tensor, i).rows[r].src <= i

\* C2: one window per index, and for every index i (the last L indices and
\* N <= L included) the target is the norm of the velocity at i and the
\* history is anchored at the real sample i.
C2_NoTrailingExclusion ==
    WindowsBuilt =>
        /\ Len(gt_v_tensor) = Len(processed_imu)
        /\ \A i \in 0..(Len(imu_img_tensor) - 1) :
              /\ At(gt_v_tensor, i).y = linalg_norm(At(gt_v_interp, i))
              /\ \E r \in DOMAIN At(imu_img_tensor, i).rows :
                    At(imu_img_tensor, i).rows[r].src = i

\* C3: every window has L rows; it holds zero padding iff i < L; when i < L
\* the samples 0..i fill the last i+1 rows in order and the rows before them
\* are zero.
C3_LeftPadding ==
    WindowsBuilt =>
        \A i \in 0..(Len(imu_img_tensor) - 1) :
            LET rows == At(imu_img_tensor, i).rows
                L == imu_seq_len
            IN  /\ Len(rows) = L
                /\ (\E r \in DOMAIN rows : rows[r] = ZeroRow) <=> (i < L)
                /\ i < L =>
                      \A r \in 1..L :
                          IF r <= L - (i + 1) THEN rows[r] = ZeroRow
                          ELSE rows[r] = SampleRow(processed_imu, r - 1 - (L - (i + 1)))

\* what the trim must have done to the series orig, given the ground truth gt
TrimmedStrictly(orig, kept, gt) ==
    LET first == gt[1].timestamp
        last  == gt[Len(gt)].timestamp
    IN  /\ \A k \in DOMAIN kept :
              first < kept[k].timestamp /\ kept[k].timestamp < last
        /\ \A k \in DOMAIN orig :
              (first < orig[k].timestamp /\ orig[k].timestamp < last)
                 <=> orig[k] \in Range(kept)
        /\ Range(kept) \subseteq Range(orig)
        /\ \A j, k \in DOMAIN kept :
              j < k => \E p, q \in DOMAIN orig :
                          p < q /\ orig[p] = kept[j] /\ orig[q] = kept[k]

\* C4: after interpolate_ground_truth (the function and the InertialDataset
\* method) every retained IMU sample lies strictly inside the ground-truth
\* span, every sample at or outside either end is dropped, every sample
\* strictly inside is kept, and the retained samples keep their order.
C4_TrimStrict ==
    /\ pc = "pre_process" =>
          TrimmedStrictly(hist.align_in, raw_imu_data, ground_truth_data)
    /\ (self_stage \in {"aligned", "raised"} /\ Len(gt_csv) > 0) =>
          TrimmedStrictly(imu_csv, self_imu_data, gt_csv)

\* a run that dropped a sample at each end of the span and kept two inside
C4_Witness ==
    /\ pc = "pre_process"
    /\ self_stage = "aligned"
    /\ Len(raw_imu_data) >= 2
    /\ self_imu_data = raw_imu_data
    /\ \E k \in DOMAIN hist.align_in :
          hist.align_in[k].timestamp = ground_truth_data[1].timestamp
    /\ \E k \in DOMAIN hist.align_in :
          hist.align_in[k].timestamp = ground_truth_data[Len(ground_truth_data)].timestamp

\* C5: piecewise-linear resampling: one interpolated velocity per retained
\* IMU sample, in order; for every pair of neighbouring ground-truth samples
\* (t0, v0), (t1, v1) with t0 <= t <= t1 each axis equals
\* v0 + (v1 - v0) * (t - t0) / (t1 - t0); in the scenario with ground truth at
\* 0, 50, 99 the velocity at timestamp 25 is [1/2, 0, 0].
C5_PiecewiseLinear ==
    pc = "pre_process" =>
        /\ Len(gt_v_interp) = Len(raw_imu_data)
        /\ \A i \in DOMAIN raw_imu_data :
              \A k \in 1..(Len(ground_truth_data) - 1) :
                  LET t  == raw_imu_data[i].timestamp
                      t0 == ground_truth_data[k].timestamp
                      t1 == ground_truth_data[k + 1].timestamp
                      v0 == ground_truth_data[k].vel
                      v1 == ground_truth_data[k + 1].vel
                  IN  (t0 <= t /\ t <= t1) =>
                          \A c \in 1..3 :
                              gt_v_interp[i][c][1] * (t1 - t0) =
                                  gt_v_interp[i][c][2]
                                    * (v0[c] * (t1 - t0) + (v1[c] - v0[c]) * (t - t0))
        /\ ground_truth_data = ScenarioGt =>
              \A i \in DOMAIN raw_imu_data :
                  raw_imu_data[i].timestamp = 25 =>
                      gt_v_interp[i] = <<<<1, 2>>, <<0, 1>>, <<0, 1>>>>

\* the scenario has been interpolated and holds the sample at timestamp 25
C5_Witness ==
    /\ pc = "pre_process"
    /\ ground_truth_data = ScenarioGt
    /\ Len(gt_v_interp) = 98
    /\ \E i \in DOMAIN raw_imu_data :
          raw_imu_data[i].timestamp = 25 /\ gt_v_interp[i][1] = <<1, 2>>

\* k is the least integer with k >= n / 10
IsCeilTenth(k, n) == 10 * k >= n /\ 10 * (k - 1) < n

NoRepeat(entries) == \A p, q \in DOMAIN entries : p # q => entries[p].id # entries[q].id

\* x and y entries are those of the window tensor and target tensor, pairwise
PairedWith(x, y, scaler) ==
    /\ Len(x) = Len(y)
    /\ \A k \in DOMAIN x :
          /\ x[k].id = y[k].id
          /\ y[k] = At(gt_v_tensor, y[k].id)
          /\ x[k] = IF scaler.state = "absent" THEN At(imu_img_tensor, x[k].id)
                    ELSE ScaleTensor(scaler, <<At(imu_img_tensor, x[k].id)>>)[1]

AllIds == 0..(Len(gt_v_tensor) - 1)

\* C6: each split draws ceil(N / 10) distinct indices and leaves the
\* complement as the training set; after both splits train, validation and
\* test are pairwise disjoint, together hold every window exactly once, and
\* every history is still paired with its own target.
C6_SplitPartition ==
    /\ pc \in {"save_train", "save_test", "add_scalers", "cnn_training", "done"} =>
          /\ IsCeilTenth(Len(test_indexes), Len(gt_v_tensor))
          /\ Range(test_indexes) \subseteq AllIds
          /\ Cardinality(Range(test_indexes)) = Len(test_indexes)
    /\ pc \in {"save_test", "add_scalers", "cnn_training", "done"} =>
          /\ Ids(train_mat.imu) = AllIds \ Range(test_indexes)
          /\ NoRepeat(train_mat.imu)
          /\ PairedWith(train_mat.imu, train_mat.y, NoScaler)
    /\ pc \in {"add_scalers", "cnn_training", "done"} =>
          /\ Ids(test_mat.imu) = Range(test_indexes)
          /\ NoRepeat(test_mat.imu)
          /\ PairedWith(test_mat.imu, test_mat.y, NoScaler)
    /\ pc = "done" =>
          LET r == hist.runs[Len(hist.runs)]
          IN  /\ IsCeilTenth(Len(r.val_x), Len(train_mat.y))
              /\ NoRepeat(r.val_x) /\ NoRepeat(r.train_x)
              /\ Ids(r.val_x) \cap Ids(r.train_x) = {}
              /\ Ids(r.val_x) \cup Ids(r.train_x) = Ids(train_mat.imu)
              /\ Ids(r.val_x) \cap Ids(test_mat.imu) = {}
              /\ Ids(r.train_x) \cap Ids(test_mat.imu) = {}
              /\ Ids(r.val_x) \cup Ids(r.train_x) \cup Ids(test_mat.imu) = AllIds
              /\ Len(r.val_x) + Len(r.train_x) + Len(test_mat.imu) = Len(gt_v_tensor)
              /\ PairedWith(r.train_x, r.train_y, r.scaler)
              /\ PairedWith(r.val_x, r.val_y, r.scaler)

\* both splits done on 11 windows: 2 test, 1 validation, 8 training windows
C6_Witness ==
    /\ pc = "done"
    /\ Len(gt_v_tensor) = 11
    /\ Len(test_mat.imu) = 2
    /\ Len(hist.runs[Len(hist.runs)].val_x) = 1
    /\ Len(hist.runs[Len(hist.runs)].train_x) = 8

\* C7: two pipeline runs that generate the dataset from identical inputs
\* (with the one seed the code has) draw the same test and validation
\* indices and return identical training and validation sets.
C7_SeededDeterminism ==
    \A p, q \in DOMAIN hist.runs :
        (/\ hist.runs[p].generated
         /\ hist.runs[q].generated
         /\ hist.runs[p].input = hist.runs[q].input
         /\ hist.runs[p].seq_len = hist.runs[q].seq_len) =>
            /\ hist.runs[p].test_indexes = hist.runs[q].test_indexes
            /\ hist.runs[p].val_indexes = hist.runs[q].val_indexes
            /\ hist.runs[p].train_x = hist.runs[q].train_x
            /\ hist.runs[p].val_x = hist.runs[q].val_x
            /\ hist.runs[p].test = hist.runs[q].test

\* C8: the scaler parameters generate_cnn_testing_dataset applies are those
\* applied when the model's training dataset was first generated.
C8_ScalerNeverRefit ==
    (hist.first_scaler.state = "saved" /\ hist.test_scaler.state = "saved") =>
        hist.test_scaler = hist.first_scaler

\* C9: when a run has failed, the training and testing files are together
\* the complete files of the last successful generation (or both absent).
C9_AllOrNothing ==
    pc = "raised" => <<train_mat, test_mat>> = hist.committed

\* C10: when the reader could not read a file, no later stage runs and the
\* call does not return normally.
C10_ErrorsSurfaced ==
    hist.read_failed => (hist.stages \subseteq {"read"} /\ pc # "done")

\* C11: interpolate_ground_truth (the function and the InertialDataset
\* method) fails, returning no aligned series, whenever the ground truth has
\* fewer than 2 samples or no IMU timestamp lies strictly inside its span; an
\* empty aligned series is never a normal result.
C11_RangeFailure ==
    /\ pc = "pre_process" =>
          (Len(ground_truth_data) >= 2 /\ Len(raw_imu_data) > 0)
    /\ pc = "raised" => error \in {"IndexError", "ValueError", "RangeError"}
    /\ self_stage = "aligned" => (Len(gt_csv) >= 2 /\ Len(self_imu_data) > 0)

\* a rational within the closed interval [0, 1]
InUnitInterval(f) == f[1] >= 0 /\ f[1] <= f[2]

TensorInUnitInterval(tensor) ==
    \A w \in DOMAIN tensor : \A r \in DOMAIN tensor[w].rows : \A c \in 1..6 :
        InUnitInterval(tensor[w].rows[r].val[c])

NonDegenerate(scaler) ==
    /\ scaler.state = "saved"
    /\ scaler.g[1] < scaler.g[2]
    /\ scaler.a[1] < scaler.a[2]

\* C12: with parameters (min, max) fit on a non-degenerate series the
\* transform sends min to 0 and max to 1, and every value the pipeline
\* transforms in generate_cnn_training_dataset and
\* generate_cnn_testing_dataset, zero-padded rows included, lies in [0, 1].
C12_ScaledIntoUnitInterval ==
    /\ NonDegenerate(scaler_save) =>
          /\ MinMaxTransform(scaler_save.g, scaler_save.g[1]) = FracOfInt(0)
          /\ MinMaxTransform(scaler_save.g, scaler_save.g[2]) = FracOfInt(1)
          /\ MinMaxTransform(scaler_save.a, scaler_save.a[1]) = FracOfInt(0)
          /\ MinMaxTransform(scaler_save.a, scaler_save.a[2]) = FracOfInt(1)
    /\ \A k \in DOMAIN hist.runs :
          NonDegenerate(hist.runs[k].scaler) =>
             /\ TensorInUnitInterval(hist.runs[k].train_x)
             /\ TensorInUnitInterval(hist.runs[k].val_x)
    /\ NonDegenerate(hist.test_scaler) => TensorInUnitInterval(hist.test_x)

\* the smallest and the largest value over all three axes and all timesteps
\* of one channel group of a series
PooledMin(series, group) ==
    SetMin(UNION {Range(series[k][group]) : k \in DOMAIN series})
PooledMax(series, group) ==
    SetMax(UNION {Range(series[k][group]) : k \in DOMAIN series})

\* C13: each of the two scalers holds a single min and a single max, those of
\* all axes and all timesteps of its own group of the filtered series, both
\* after pre_process_data and after InertialDataset.basic_preprocessing.
C13_PooledPerGroup ==
    /\ scaler_save.state = "saved" =>
          /\ scaler_save.g = <<PooledMin(processed_imu, "gyro"),
                               PooledMax(processed_imu, "gyro")>>
          /\ scaler_save.a = <<PooledMin(processed_imu, "acc"),
                               PooledMax(processed_imu, "acc")>>
    /\ self_scaler_save.state = "saved" =>
          /\ self_scaler_save.g.data_min = <<PooledMin(self_imu_data, "gyro")>>
          /\ self_scaler_save.g.data_max = <<PooledMax(self_imu_data, "gyro")>>
          /\ self_scaler_save.a.data_min = <<PooledMin(self_imu_data, "acc")>>
          /\ self_scaler_save.a.data_max = <<PooledMax(self_imu_data, "acc")>>

\* C14: scaler_files_dir.txt is written once: whatever roots the calls are
\* given, it holds the root of the first add_scalers_to_training_dir call, and
\* generate_cnn_training_dataset and generate_cnn_testing_dataset load the
\* scalers from under that root.
C14_PointerWriteOnce ==
    /\ scaler_dir_txt = NoneVal <=> hist.add_roots = <<>>
    /\ hist.add_roots # <<>> => scaler_dir_txt = hist.add_roots[1]
    /\ \A k \in DOMAIN hist.runs :
          /\ hist.add_roots # <<>>
          /\ hist.runs[k].scaler_root = hist.add_roots[1]
    /\ hist.test_root # NoneVal =>
          /\ hist.add_roots # <<>>
          /\ hist.test_root = hist.add_roots[1]

\* a second call given another root has trained with the scalers found under
\* the root of the first call, not with those under its own root
C14_Witness ==
    /\ pc = "done"
    /\ Len(hist.runs) >= 2
    /\ Len(hist.add_roots) >= 2
    /\ cur_root # hist.add_roots[1]
    /\ scaler_dir_txt = hist.add_roots[1]
    /\ scaler_save.state = "saved"
    /\ hist.runs[Len(hist.runs)].scaler = shelf[hist.add_roots[1]].scaler_save
    /\ hist.runs[Len(hist.runs)].scaler # scaler_save


===========================================================================
